---- MODULE Spec2Model ----
(***************************************************************************)
(* A model of src/app/services/cfb.service.js: the College Football        *)
(* operations of sportsdataverse-js.  Every operation is an async          *)
(* function; the points at which it awaits (the HTTP GET, the browser      *)
(* session's steps, the scroll loop's timer) are the steps of the model.   *)
(***************************************************************************)
EXTENDS Integers, Sequences, FiniteSets, TLC

VARIABLES
    pc,           \* per call: where the async function stands
    req,          \* per call: the operation invoked and its arguments
    gets,         \* per call: number of axios.get requests issued
    query,        \* per call: the params object handed to axios.get
    failure,      \* per call: the error the GET was rejected with ("none" if not)
    err,          \* per call: the error the call was rejected with ("none" if not)
    result,       \* per call: the value the call resolved with
    content,      \* per call: fetchRankingsData's let content (browser mode)
    sessions,     \* the browser sessions launched so far: <<[owner, open]>>
    timer,        \* autoScroll: "off", "running" or "cleared"
    totalHeight,  \* autoScroll: let totalHeight
    attempts,     \* autoScroll: let attempts
    scrollHeight, \* the page: document.body.scrollHeight
    rowCount,     \* the page: number of 'table tbody tr' elements
    ticks,        \* history: the ticks of the timer so far (counted up to MaxTicks)
    steady,       \* history: the page's initial scroll height, while the page has
                  \* never exceeded it and its rows have stayed below the target;
                  \* -1 once it has grown past that
    fresh,        \* history: the page has grown (more rows or a greater scroll
                  \* height) since the previous tick
    seen,         \* history: rows.length as the latest tick read it (-1 before
                  \* the first tick)
    streak        \* history: the attempts counted in a row on ticks that revealed
                  \* no growth, with no growth of the page in between

vars == <<pc, req, gets, query, failure, err, result, content, sessions,
          timer, totalHeight, attempts, scrollHeight, rowCount,
          ticks, steady, fresh, seen, streak>>

callVars == <<pc, req, gets, query, failure, err, result, content, sessions>>
scrollVars == <<timer, totalHeight, attempts, scrollHeight, rowCount,
                ticks, steady, fresh, seen, streak>>

----------------------------------------------------------------------------
(* Bounds of the model.                                                    *)

NumCalls == 2      \* concurrent invocations
MaxRows == 3       \* rows (or feed items) of a fetched document
MaxPage == 2       \* page numbers 1..MaxPage
MaxScreens == 3    \* the page's scroll height, in scroll increments

----------------------------------------------------------------------------
(* JavaScript values.  A value is [t |-> its type, v |-> its content]; a   *)
(* string of digits is the sequence of its digits, any other string a      *)
(* TLA+ string.                                                            *)

Undefined == [t |-> "undefined", v |-> 0]
Num(n) == [t |-> "number", v |-> n]
Str(s) == [t |-> "string", v |-> s]
Arr(s) == [t |-> "array", v |-> s]      \* a one-element array [s]
Null == [t |-> "null", v |-> "null"]
Bool(b) == [t |-> "boolean", v |-> b]

\* a default parameter value applies when the argument is undefined
Default(x, d) == IF x.t = "undefined" THEN d ELSE x

\* Number.prototype.toString for a non-negative integer: its decimal digits
RECURSIVE Digits(_)
Digits(n) == IF n < 10 THEN <<n>> ELSE Append(Digits(n \div 10), n % 10)

\* the integer a sequence of decimal digits denotes
RECURSIVE DigitsValue(_)
DigitsValue(ds) ==
    IF ds = <<>> THEN 0
    ELSE 10 * DigitsValue(SubSeq(ds, 1, Len(ds) - 1)) + ds[Len(ds)]

\* the string conversion of a number or a digit string, as a template literal inserts it
StringOf(x) == IF x.t = "number" THEN Digits(x.v) ELSE x.v

\* parseInt(x) for a non-negative integer or a string of digits: the argument
\* is converted to a string and its digits are read in base 10
parseInt(x) == DigitsValue(StringOf(x))

\* truthiness of an argument that is undefined, null, a number or a digit string
Truthy(x) ==
    CASE x.t = "undefined" -> FALSE
      [] x.t = "null" -> FALSE
      [] x.t = "number" -> x.v # 0
      [] x.t = "string" -> x.v # <<>>
      [] OTHER -> TRUE

\* String.prototype.toLowerCase over the strings of the model
LowerCase(s) ==
    CASE s = "247Composite" -> "247composite"
      [] s = "Rivals" -> "rivals"
      [] s = "On3" -> "on3"
      [] s = "On3Composite" -> "on3composite"
      [] s = "ESPN" -> "espn"
      [] s = "Espn" -> "espn"
      [] s = "RIVALS" -> "rivals"
      [] OTHER -> s

\* a plausible slip: the comparison ignores case
StrictEqAnyCase(a, s) == a.t = "string" /\ LowerCase(a.v) = LowerCase(s)

\* a === 'literal'
StrictEq(a, s) == a.t = "string" /\ a.v = s

\* a == 'literal': a string compares by content; an array is first converted to
\* the string of its elements; null equals only null and undefined
LooseEq(a, s) ==
    CASE a.t = "string" -> a.v = s
      [] a.t = "array" -> a.v = s
      [] OTHER -> FALSE

\* does service.toLowerCase() exist: only strings have the method
HasToLowerCase(a) == a.t = "string"

----------------------------------------------------------------------------
(* Requests: an operation and the arguments it is invoked with.  An        *)
(* argument the caller leaves out is Undefined.                            *)

NoArgs ==
    [op |-> "", id |-> Undefined, service |-> Undefined, page |-> Undefined,
     year |-> Undefined, month |-> Undefined, day |-> Undefined,
     week |-> Undefined, groups |-> Undefined, seasontype |-> Undefined,
     limit |-> Undefined,
     means |-> <<0, 0, 0>>]      \* the date the caller means (0: part left out)

Request(op) == [NoArgs EXCEPT !.op = op]

UserAgent == "Mozilla/5.0"

\* an axios request config
Config(headers, params) == [headers |-> headers, params |-> params]
NoParams == [none |-> TRUE]

\* what the request builder of an operation yields: a target to fetch, or an error
Target(url, config) == [ok |-> TRUE, error |-> "none", url |-> url, config |-> config]
Fatal(error) == [ok |-> FALSE, error |-> error, url |-> <<>>, config |-> Config("", NoParams)]

\* getPlayerRankings, lines 218-268: the service selects the URL and the params
RankingsTarget(r) ==
    LET page == Default(r.page, Num(1))
        service == Default(r.service, Str("247Composite"))
        p247 == [InstitutionGroup |-> Str("HighSchool"), Page |-> page,
                 Position |-> Null, State |-> Null]
    IN  IF StrictEq(service, "247Composite")
        THEN Target(<<"247sports.com", r.year, "CompositeRecruitRankings">>,
                    Config(UserAgent, p247))
        ELSE IF StrictEq(service, "247")
        THEN Target(<<"247sports.com", r.year, "recruitrankings">>,
                    Config(UserAgent, p247))
        ELSE IF StrictEq(service, "Rivals")
        THEN Target(<<"n.rivals.com", "rivals250", r.year>>,
                    Config(UserAgent, NoParams))
        ELSE IF StrictEq(service, "On3")
        THEN Target(<<"on3.com", "player", r.year>>, Config(UserAgent, NoParams))
        ELSE IF LooseEq(service, "On3Composite")
        THEN Target(<<"on3.com", "industry-player", r.year>>,
                    Config(UserAgent, NoParams))
        ELSE IF StrictEq(service, "ESPN")
        THEN Target(<<"sports.core.api.espn.com", r.year, page>>,
                    Config(UserAgent, [lang |-> Str("en"), region |-> Str("us")]))
        ELSE Fatal("Error: Invalid rankings type")

\* a plausible slip: < 9 for <= 9
PadBelowNine(x) == IF parseInt(x) < 9 THEN <<0>> \o Digits(parseInt(x)) ELSE Digits(parseInt(x))

\* the two-digit form of a month or day: parseInt(x) <= 9 ? "0" + parseInt(x) : parseInt(x)
Pad(x) == IF parseInt(x) <= 9 THEN <<0>> \o Digits(parseInt(x)) ELSE Digits(parseInt(x))

\* getSchedule, line 547: the template literal building params.dates
ScheduleDates(year, month, day) == StringOf(year) \o Pad(month) \o Pad(day)

\* getScoreboard, line 581: the template literal building params.dates
ScoreboardDates(year, month, day) ==
    StringOf(year)
    \o (IF parseInt(month) <= 9 THEN <<0>> \o Digits(parseInt(month))
        ELSE Digits(parseInt(month)))
    \o (IF parseInt(day) <= 9 THEN <<0>> \o Digits(parseInt(day))
        ELSE Digits(parseInt(day)))

\* getSchedule, line 546: if (year && month && day)
ScheduleHasDates(r) == Truthy(r.year) /\ Truthy(r.month) /\ Truthy(r.day)

\* a plausible slip: a name that is not a parameter of the operation
ScoreboardHasDatesWrongName(r) == Truthy(r.year) /\ Truthy(r.month) /\ Truthy(r.week)

\* getScoreboard, line 580: if (year && month && day)
ScoreboardHasDates(r) == Truthy(r.year) /\ Truthy(r.month) /\ Truthy(r.day)

\* getSchedule, lines 536-548
ScheduleParams(r) ==
    LET params == [groups |-> Default(r.groups, Num(80)),
                   seasontype |-> Default(r.seasontype, Num(2)),
                   xhr |-> Num(1), render |-> Bool(FALSE),
                   device |-> Str("desktop"), userab |-> Num(18)]
    IN  IF ScheduleHasDates(r)
        THEN params @@ [dates |-> Str(ScheduleDates(r.year, r.month, r.day))]
        ELSE params

\* getScoreboard, lines 572-582
ScoreboardParams(r) ==
    LET params == [groups |-> Default(r.groups, Num(80)),
                   seasontype |-> Default(r.seasontype, Num(2)),
                   limit |-> Default(r.limit, Num(300))]
    IN  IF ScoreboardHasDates(r)
        THEN params @@ [dates |-> Str(ScoreboardDates(r.year, r.month, r.day))]
        ELSE params

\* getRankings, lines 505-515: year and week are copied when truthy
RankingsParams(r) ==
    IF Truthy(r.year) /\ Truthy(r.week) THEN [year |-> r.year, week |-> r.week]
    ELSE IF Truthy(r.year) THEN [year |-> r.year]
    ELSE IF Truthy(r.week) THEN [week |-> r.week]
    ELSE NoParams

\* the operations that fetch JSON from the network's API with one axios.get
JsonOps ==
    {"getPlayByPlay", "getBoxScore", "getSummary", "getPicks", "getRankings",
     "getSchedule", "getScoreboard", "getConferences", "getStandings",
     "getTeamList", "getTeamInfo", "getTeamPlayers"}

\* the operations that scrape an HTML document
HtmlOps == {"getSchoolRankings", "getSchoolCommits"}

Ops == JsonOps \cup HtmlOps \cup {"getPlayerRankings"}

\* the request builder of each operation: its URL and axios config
BuildTarget(r) ==
    CASE r.op = "getPlayerRankings" -> RankingsTarget(r)
      [] r.op = "getPlayByPlay" ->                                  \* lines 74-85
            Target(<<"cdn.espn.com", "playbyplay">>,
                   Config("", [gameId |-> r.id, xhr |-> Num(1),
                               render |-> Str("false"), userab |-> Num(18)]))
      [] r.op = "getBoxScore" ->                                    \* lines 109-121
            Target(<<"cdn.espn.com", "boxscore">>,
                   Config("", [gameId |-> r.id, xhr |-> Num(1), render |-> Bool(FALSE),
                               device |-> Str("desktop"), userab |-> Num(18)]))
      [] r.op = "getSummary" ->                                     \* lines 138-146
            Target(<<"site.api.espn.com", "summary">>, Config("", [event |-> r.id]))
      [] r.op = "getPicks" ->                                       \* lines 175-183
            Target(<<"site.api.espn.com", "summary">>, Config("", [event |-> r.id]))
      [] r.op = "getSchoolRankings" ->                              \* lines 408-418
            Target(<<"247sports.com", r.year, "CompositeTeamRankings">>,
                   Config(UserAgent, [Page |-> Default(r.page, Num(1))]))
      [] r.op = "getSchoolCommits" ->                               \* lines 453-460
            Target(<<"247sports.com", r.year, "Commits">>, Config(UserAgent, NoParams))
      [] r.op = "getRankings" ->                                    \* lines 505-519
            Target(<<"cdn.espn.com", "rankings">>, Config("", RankingsParams(r)))
      [] r.op = "getSchedule" ->                                    \* lines 536-552
            Target(<<"cdn.espn.com", "schedule">>, Config("", ScheduleParams(r)))
      [] r.op = "getScoreboard" ->                                  \* lines 572-586
            Target(<<"site.api.espn.com", "scoreboard">>, Config("", ScoreboardParams(r)))
      [] r.op = "getConferences" ->                                 \* lines 602-611
            Target(<<"site.api.espn.com", "conferences">>,
                   Config("", [season |-> r.year, group |-> Default(r.groups, Num(80))]))
      [] r.op = "getStandings" ->                                   \* lines 626-642
            Target(<<"site.web.api.espn.com", "standings">>,
                   Config("", [region |-> Str("us"), lang |-> Str("en"),
                               contentorigin |-> Str("espn"), season |-> r.year,
                               group |-> Default(r.groups, Num(80)),
                               type |-> Num(0), level |-> Num(1)]))
      [] r.op = "getTeamList" ->                                    \* lines 655-664
            Target(<<"site.api.espn.com", "teams">>,
                   Config("", [group |-> Default(r.groups, Num(80)), limit |-> Num(1000)]))
      [] r.op = "getTeamInfo" ->                                    \* lines 679-682
            Target(<<"site.api.espn.com", "teams", r.id>>, Config("", NoParams))
      [] r.op = "getTeamPlayers" ->                                 \* lines 695-703
            Target(<<"site.api.espn.com", "teams", r.id>>,
                   Config("", [enable |-> Str("roster")]))

----------------------------------------------------------------------------
(* Fetched content.  An HTML document is the sequence of the elements its  *)
(* row selector matches, in document order, each with the text its name    *)
(* and rating sub-selectors yield (after trim); a recruiting feed is the   *)
(* sequence of its items; a JSON body either has the nested fields an      *)
(* operation projects or lacks them.                                       *)

Names == {"", "Ann Lee"}
Ratings == {"", "0.98"}
Rows == [name : Names, rating : Ratings]
DecorationRow == [name |-> "", rating |-> ""]
PlayerRow == [name |-> "Ann Lee", rating |-> "0.98"]

\* an item of the recruiting feed: rank is the value of its type-0 attribute
\* (Undefined when the item has none)
Items == [rank : {Undefined, Num(7)}, grade : {"85"}]

RECURSIVE SeqsUpTo(_, _)
SeqsUpTo(S, n) ==
    IF n = 0 THEN {<<>>}
    ELSE LET shorter == SeqsUpTo(S, n - 1)
         IN  shorter \cup {Append(q, x) : q \in {t \in shorter : Len(t) = n - 1}, x \in S}

HtmlContent(rows) == [kind |-> "html", rows |-> rows, complete |-> TRUE]
FeedContent(items) == [kind |-> "feed", rows |-> items, complete |-> TRUE]
JsonContent(complete) == [kind |-> "json", rows |-> <<>>, complete |-> complete]
NoContent == [kind |-> "none", rows |-> <<>>, complete |-> FALSE]

\* the body of a summary response, as far as getPicks reads its betting
\* sections: res.data.winprobability, .pickcenter, .againstTheSpread, .odds
SummaryContent(data) == [kind |-> "json", rows |-> <<data>>, complete |-> TRUE]

\* what a call ends with
Return(kind, list) == [pc |-> "returned", err |-> "none",
                       result |-> [kind |-> kind, list |-> list]]
Throw(error) == [pc |-> "failed", err |-> error,
                 result |-> [kind |-> "none", list |-> <<>>]]
NoResult == [kind |-> "none", list |-> <<>>]

\* a plausible slip: the rating is not tested
CommitKeptNameOnly(player) == player.name # ""

\* getSchoolCommits, lines 488-490: the predicate of players.filter
CommitKept(player) == player.name # "" /\ player.rating # ""

\* getSchoolCommits, lines 462-492: one player per matched row, then the filter
SchoolCommits(body) ==
    LET players == [i \in 1..Len(body.rows) |->
                      [name |-> body.rows[i].name,
                       rating |-> body.rows[i].rating]]
    IN  Return("list", SelectSeq(players, CommitKept))   \* players.filter

\* getSchoolRankings, lines 420-440: one school per matched row
SchoolRankings(body) ==
    LET schools == [i \in 1..Len(body.rows) |->
                      [school |-> body.rows[i].name,
                       averageRating |-> body.rows[i].rating]]
    IN  Return("list", schools)

\* getPlayerRankings: the identifiers bound where lines 278-395 run: the
\* parameters, the function-level let and const declarations, and the module's
\* imports and functions.  `let $` (line 276) is declared inside the if-block
\* of lines 275-277 and is bound only in that block; nothing declares
\* `attributes`.
RankingsScope ==
    {"year", "page", "group", "position", "state", "service", "params", "baseUrl",
     "axiosConfig", "htmlResponse", "players", "axios", "cheerio", "puppeteer",
     "autoScroll", "fetchRankingsData"}

Bound(id) == id \in RankingsScope

\* lines 282-304: rank starts at 1 + 50 * (page - 1) and is incremented per row
Players247(page, rows) ==
    [i \in 1..Len(rows) |->
        [ranking |-> (1 + 50 * (page.v - 1)) + (i - 1),
         name |-> rows[i].name,
         rating |-> IF rows[i].rating = "" THEN "NaN" ELSE rows[i].rating]]  \* parseFloat

\* lines 307-326: name is first-name + ' ' + last-name
PlayersRivals(rows) ==
    [i \in 1..Len(rows) |->
        [name |-> IF rows[i].name = "" THEN " " ELSE rows[i].name,
         rating |-> rows[i].rating]]

\* lines 329-363
PlayersOn3(rows) ==
    [i \in 1..Len(rows) |-> [name |-> rows[i].name, rating |-> rows[i].rating]]

\* lines 366-392: the displayed rank if the item has one, else the computed rank
PlayersEspn(page, items) ==
    [i \in 1..Len(items) |->
        [ranking |-> IF items[i].rank.t # "undefined" THEN items[i].rank.v
                     ELSE (1 + 25 * (page.v - 1)) + (i - 1),
         stars |-> 0,
         rating |-> items[i].grade]]

\* getPlayerRankings, lines 275-395: what follows the fetch
RankingsExtract(r, body) ==
    LET page == Default(r.page, Num(1))
        lower == LowerCase(Default(r.service, Str("247Composite")).v)
    IN  CASE lower \in {"247", "247composite"} ->
               IF Bound("$") THEN Return("list", Players247(page, body.rows))
               ELSE Throw("ReferenceError: $ is not defined")
          [] lower = "rivals" ->
               IF Bound("$") THEN Return("list", PlayersRivals(body.rows))
               ELSE Throw("ReferenceError: $ is not defined")
          [] lower \in {"on3", "on3composite"} ->
               IF Bound("$") THEN Return("list", PlayersOn3(body.rows))
               ELSE Throw("ReferenceError: $ is not defined")
          [] lower = "espn" ->
               IF ~body.complete
               THEN Throw("TypeError: allItems is not iterable")
               ELSE IF body.rows = <<>> THEN Return("list", <<>>)
               ELSE IF Bound("attributes")
               THEN Return("list", PlayersEspn(page, body.rows))
               ELSE Throw("ReferenceError: attributes is not defined")
          [] OTHER -> Return("list", <<>>)

\* the operations that read nested fields of the body (res.data.header.id,
\* res.data.gamepackageJSON.boxscore, res.data.content.schedule, ...)
ProjectingOps == {"getPlayByPlay", "getBoxScore", "getSummary", "getPicks", "getSchedule"}

\* lines 185-199 of getPicks: the object it returns, as far as the betting
\* sections go
Picks(body) ==
    LET data == body.rows[1]                              \* res.data
    IN  Return("picks", <<[winProbability |-> data.winprobability,     \* line 192
                           pickcenter |-> data.winprobability,         \* line 193
                           againstTheSpread |-> data.againstTheSpread, \* line 194
                           odds |-> data.odds]>>)                      \* line 195

\* what an operation does with the content its fetch resolved with
Continue(r, body) ==
    CASE r.op = "getPlayerRankings" -> RankingsExtract(r, body)
      [] r.op = "getSchoolRankings" -> SchoolRankings(body)
      [] r.op = "getSchoolCommits" -> SchoolCommits(body)
      [] r.op = "getPicks" ->
            IF body.complete THEN Picks(body)
            ELSE Throw("TypeError: Cannot read properties of undefined")
      [] r.op \in ProjectingOps ->
            IF body.complete THEN Return("json", <<>>)
            ELSE Throw("TypeError: Cannot read properties of undefined")
      [] OTHER -> Return("json", <<>>)               \* return res.data

\* a plausible slip: a failed GET is issued again
OnGetRejectedRetry(e) == [pc |-> "get", err |-> "none", again |-> 1]

\* an awaited axios.get that rejects: no operation catches, so the call is
\* rejected with the same error and issues nothing more
OnGetRejected(e) == [pc |-> "failed", err |-> e, again |-> 0]

\* fetchRankingsData, line 45: which mode fetches the content
FetchMode(service) ==
    IF ~HasToLowerCase(service) THEN "TypeError"
    ELSE IF LowerCase(service.v) = "rivals" THEN "browser"
    ELSE "plain"

\* how the fetch of a request is started: lines 270 and 45-56 for
\* getPlayerRankings, the operation's own axios.get for the others
StartMode(r) ==
    IF r.op = "getPlayerRankings"
    THEN FetchMode(Default(r.service, Str("247Composite")))
    ELSE "plain"

----------------------------------------------------------------------------
(* The worlds the specifications draw from: the requests callers make and  *)
(* the content the network answers with.                                   *)

ValidServices ==
    {Str("247Composite"), Str("247"), Str("Rivals"), Str("On3"),
     Str("On3Composite"), Str("ESPN")}

\* service values that are none of the six identifiers
OtherServices ==
    {Str("rivals"), Str("espn"), Str("RIVALS"), Str("Espn"), Str("on3"),
     Str("247composite"), Str("on3composite"), Str(""), Str("Rivals250"),
     Arr("On3Composite"), Arr("Rivals"), Num(247), Null}

Pages == {Undefined} \cup {Num(n) : n \in 1..MaxPage}

RankingRequests(services, pages) ==
    {[Request("getPlayerRankings") EXCEPT !.year = Num(2024), !.service = s, !.page = p] :
        s \in services, p \in pages}

TransportErrors == {"Error: connect ECONNREFUSED", "AxiosError: status code 404"}

\* the sections of a summary: each is one of two distinguishable values
Sections == {1, 2}

Summaries ==
    [winprobability : Sections, pickcenter : Sections,
     againstTheSpread : Sections, odds : Sections]

\* the content a successful GET of request r can resolve with
ResponsesFor(r, W) ==
    IF r.op \in HtmlOps THEN {HtmlContent(d) : d \in W.docs}
    ELSE IF r.op = "getPlayerRankings"
    THEN IF StrictEq(r.service, "ESPN")
         THEN {FeedContent(f) : f \in W.feeds} \cup {JsonContent(FALSE)}
         ELSE {HtmlContent(d) : d \in W.docs}
    ELSE IF r.op = "getPicks"
    THEN {SummaryContent(d) : d \in Summaries} \cup {JsonContent(FALSE)}
    ELSE {JsonContent(TRUE), JsonContent(FALSE)}

----------------------------------------------------------------------------
(* The calls.                                                              *)

CallIds == DOMAIN pc

Settle(c, o) ==
    /\ pc' = [pc EXCEPT ![c] = o.pc]
    /\ err' = [err EXCEPT ![c] = o.err]
    /\ result' = [result EXCEPT ![c] = o.result]

\* the caller invokes an operation: the function runs up to its first await
Invoke(c, W) ==
    /\ pc[c] = "idle"
    /\ \E r \in W.requests :
        /\ req' = [req EXCEPT ![c] = r]
        /\ LET t == BuildTarget(r)
               mode == StartMode(r)
           IN  IF ~t.ok
               THEN /\ Settle(c, Throw(t.error))
                    /\ UNCHANGED <<gets, query>>
               ELSE IF mode = "TypeError"
               THEN /\ Settle(c, Throw("TypeError: service.toLowerCase is not a function"))
                    /\ UNCHANGED <<gets, query>>
               ELSE IF mode = "browser"
               THEN /\ pc' = [pc EXCEPT ![c] = "launch"]          \* puppeteer.launch()
                    /\ UNCHANGED <<gets, query, err, result>>
               ELSE /\ pc' = [pc EXCEPT ![c] = "get"]             \* axios.get(url, config)
                    /\ gets' = [gets EXCEPT ![c] = @ + 1]
                    /\ query' = [query EXCEPT ![c] = t.config]
                    /\ UNCHANGED <<err, result>>
        /\ UNCHANGED <<failure, content, sessions, scrollVars>>

\* the GET fails: a transport error or a non-success status
GetRejects(c) ==
    /\ pc[c] = "get"
    /\ \E e \in TransportErrors :
        /\ failure' = [failure EXCEPT ![c] = e]
        /\ LET o == OnGetRejected(e)
           IN  /\ pc' = [pc EXCEPT ![c] = o.pc]
               /\ err' = [err EXCEPT ![c] = o.err]
               /\ gets' = [gets EXCEPT ![c] = @ + o.again]
        /\ UNCHANGED <<req, query, result, content, sessions, scrollVars>>

\* the GET succeeds and the rest of the operation runs
GetResolves(c, W) ==
    /\ pc[c] = "get"
    /\ \E data \in ResponsesFor(req[c], W) :
        /\ content' = [content EXCEPT ![c] = data]
        /\ Settle(c, Continue(req[c], data))
        /\ UNCHANGED <<req, gets, query, failure, sessions, scrollVars>>

\* fetchRankingsData, line 46: puppeteer.launch() resolves with a new browser
LaunchResolves(c) ==
    /\ pc[c] = "launch"
    /\ sessions' = Append(sessions, [owner |-> c, open |-> TRUE])
    /\ pc' = [pc EXCEPT ![c] = "newPage"]
    /\ UNCHANGED <<req, gets, query, failure, err, result, content, scrollVars>>

\* lines 47, 48 and 51: newPage, goto and autoScroll resolve in turn
PageStepResolves(c) ==
    /\ pc[c] \in {"newPage", "goto", "autoScroll"}
    /\ pc' = [pc EXCEPT ![c] = CASE pc[c] = "newPage" -> "goto"
                                 [] pc[c] = "goto" -> "autoScroll"
                                 [] pc[c] = "autoScroll" -> "content"]
    /\ UNCHANGED <<req, gets, query, failure, err, result, content, sessions, scrollVars>>

\* line 53: page.content() resolves with the rendered document
ContentResolves(c, W) ==
    /\ pc[c] = "content"
    /\ \E d \in W.docs :
        /\ content' = [content EXCEPT ![c] = HtmlContent(d)]
        /\ pc' = [pc EXCEPT ![c] = "close"]
        /\ UNCHANGED <<req, gets, query, failure, err, result, sessions, scrollVars>>

\* the session the call's `browser` refers to is closed
CloseOf(c, ss) ==
    [i \in DOMAIN ss |-> IF ss[i].owner = c THEN [ss[i] EXCEPT !.open = FALSE] ELSE ss[i]]

\* lines 54 and 60, then lines 275-395: the browser closes, the content is
\* returned and the rest of getPlayerRankings runs
CloseResolves(c) ==
    /\ pc[c] = "close"
    /\ sessions' = CloseOf(c, sessions)
    /\ Settle(c, RankingsExtract(req[c], content[c]))
    /\ UNCHANGED <<req, gets, query, failure, content, scrollVars>>

\* lines 46-53: an awaited browser step rejects; nothing catches it
BrowserRejects(c) ==
    /\ pc[c] \in {"launch", "newPage", "goto", "autoScroll", "content"}
    /\ Settle(c, Throw(CASE pc[c] = "launch" -> "Error: Failed to launch the browser process"
                         [] pc[c] = "newPage" -> "Error: Target closed"
                         [] pc[c] = "goto" -> "TimeoutError: Navigation timeout"
                         [] pc[c] = "autoScroll" -> "Error: Execution context was destroyed"
                         [] pc[c] = "content" -> "Error: Session closed"))
    /\ UNCHANGED <<req, gets, query, failure, content, sessions, scrollVars>>

InitCalls(C) ==
    /\ pc = [c \in C |-> "idle"]
    /\ req = [c \in C |-> NoArgs]
    /\ gets = [c \in C |-> 0]
    /\ query = [c \in C |-> Config("", NoParams)]
    /\ failure = [c \in C |-> "none"]
    /\ err = [c \in C |-> "none"]
    /\ result = [c \in C |-> NoResult]
    /\ content = [c \in C |-> NoContent]
    /\ sessions = <<>>

ScrollIdle ==
    /\ timer = "off"
    /\ totalHeight = 0
    /\ attempts = 0
    /\ scrollHeight = 0
    /\ rowCount = 0
    /\ ticks = 0
    /\ steady = -1
    /\ fresh = FALSE
    /\ seen = -1
    /\ streak = 0

----------------------------------------------------------------------------
(* Spec: concurrent getPlayerRankings calls, every service value.          *)

World ==
    [requests |-> RankingRequests(ValidServices \cup OtherServices \cup {Undefined},
                                  {Undefined}),
     docs |-> {<<>>, <<PlayerRow>>},
     feeds |-> {<<>>, <<[rank |-> Undefined, grade |-> "85"]>>}]

Init == InitCalls(1..NumCalls) /\ ScrollIdle

Next ==
    \/ \E c \in CallIds : Invoke(c, World)
    \/ \E c \in CallIds : GetRejects(c)
    \/ \E c \in CallIds : GetResolves(c, World)
    \/ \E c \in CallIds : LaunchResolves(c)
    \/ \E c \in CallIds : PageStepResolves(c)
    \/ \E c \in CallIds : ContentResolves(c, World)
    \/ \E c \in CallIds : CloseResolves(c)
    \/ \E c \in CallIds : BrowserRejects(c)

Spec == Init /\ [][Next]_vars

----------------------------------------------------------------------------
(* SpecOps: one call of any operation, with every document of up to        *)
(* MaxRows rows and the ten-row fixtures.                                  *)

\* documents of ten matched rows of which two are decoration rows with an
\* empty name and the other eight are players
FixtureDocs ==
    {[i \in 1..10 |-> IF i \in ab THEN [name |-> "", rating |-> g] ELSE PlayerRow] :
        ab \in {x \in SUBSET (1..10) : Cardinality(x) = 2}, g \in Ratings}

OpsRequests ==
    RankingRequests(ValidServices \cup {Undefined, Str("rivals")}, Pages)
    \cup {[Request("getSchoolRankings") EXCEPT !.year = Num(2021), !.page = p] : p \in Pages}
    \cup {[Request("getSchoolCommits") EXCEPT !.year = Num(2021)]}
    \cup {[Request(op) EXCEPT !.id = Num(52)] :
            op \in {"getPlayByPlay", "getBoxScore", "getSummary", "getPicks",
                    "getTeamInfo", "getTeamPlayers"}}
    \cup {[Request(op) EXCEPT !.year = y] :
            op \in {"getRankings", "getConferences", "getStandings", "getTeamList",
                    "getSchedule", "getScoreboard"},
            y \in {Undefined, Num(2020)}}

OpsWorld ==
    [requests |-> OpsRequests,
     docs |-> SeqsUpTo(Rows, MaxRows) \cup FixtureDocs,
     feeds |-> SeqsUpTo(Items, MaxRows)]

InitOps == InitCalls({1}) /\ ScrollIdle

NextOps ==
    \/ \E c \in CallIds : Invoke(c, OpsWorld)
    \/ \E c \in CallIds : GetRejects(c)
    \/ \E c \in CallIds : GetResolves(c, OpsWorld)
    \/ \E c \in CallIds : LaunchResolves(c)
    \/ \E c \in CallIds : PageStepResolves(c)
    \/ \E c \in CallIds : ContentResolves(c, OpsWorld)
    \/ \E c \in CallIds : CloseResolves(c)
    \/ \E c \in CallIds : BrowserRejects(c)

SpecOps == InitOps /\ [][NextOps]_vars

----------------------------------------------------------------------------
(* SpecDates: one call of getSchedule or getScoreboard, with every month   *)
(* and day in each of the forms a caller can write it.                     *)

Years == {1000, 2019, 9999}
Months == 1..12
Days == 1..31

\* the forms of an argument: a number, its decimal string, and its decimal
\* string with a leading zero
Forms == {"number", "string", "zero"}

JsOf(n, form) ==
    CASE form = "number" -> Num(n)
      [] form = "string" -> Str(Digits(n))
      [] form = "zero" -> Str(<<0>> \o Digits(n))

\* an argument and the number it means: <<value, n>>, n = 0 when left out
ArgsOf(S, forms) == {<<Undefined, 0>>} \cup {<<JsOf(n, f), n>> : n \in S, f \in forms}

Overrides ==
    {[groups |-> Undefined, seasontype |-> Undefined, limit |-> Undefined],
     [groups |-> Num(81), seasontype |-> Num(3), limit |-> Num(50)]}

DateRequests ==
    {[Request(op) EXCEPT !.year = y[1], !.month = m[1], !.day = d[1],
                         !.means = <<y[2], m[2], d[2]>>,
                         !.groups = o.groups, !.seasontype = o.seasontype,
                         !.limit = o.limit] :
        op \in {"getSchedule", "getScoreboard"},
        y \in ArgsOf(Years, {"number", "string"}),
        m \in ArgsOf(Months, Forms), d \in ArgsOf(Days, Forms), o \in Overrides}

DatesWorld == [requests |-> DateRequests, docs |-> {<<>>}, feeds |-> {<<>>}]

InitDates == InitCalls({1}) /\ ScrollIdle

NextDates ==
    \/ \E c \in CallIds : Invoke(c, DatesWorld)
    \/ \E c \in CallIds : GetRejects(c)
    \/ \E c \in CallIds : GetResolves(c, DatesWorld)

SpecDates == InitDates /\ [][NextDates]_vars

----------------------------------------------------------------------------
(* SpecScroll: the scroll loop of autoScroll, lines 11-36, inside a page   *)
(* that changes as it likes between two ticks of the timer.                *)

distance == 100          \* line 15
maxAttempts == 20        \* line 17
targetRowCount == 250    \* line 11, the default of the parameter

\* Heights are multiples of the scroll increment: the loop reads them only in
\* totalHeight >= document.body.scrollHeight (line 29) and totalHeight is a
\* multiple of distance, so a scroll height between two multiples compares as
\* the next multiple does.  That comparison is also all the loop does with
\* the two heights, and it is unchanged when both are lowered by the same
\* amount: once totalHeight reaches Horizon both are kept lowered by one
\* increment, so that a page growing for ever is a cycle of finitely many
\* states.
Horizon == (MaxScreens + maxAttempts + 2) * distance

Max(a, b) == IF a >= b THEN a ELSE b

\* the row counts a page shows: none, one short of the target, the target
RowCounts == {0, targetRowCount - 1, targetRowCount}

\* the scroll heights a page can have when totalHeight is t: its bottom at
\* most MaxScreens increments beyond the distance scrolled so far
HeightsNear(t) == {k * distance : k \in 0..((t \div distance) + MaxScreens)}

\* the ticks counted: as many as reach the horizon
MaxTicks == Horizon \div distance

Min(a, b) == IF a <= b THEN a ELSE b

\* a plausible slip: > for >=
HitBottomStrict(scrolled, height) == scrolled > height

\* line 29: totalHeight >= document.body.scrollHeight
HitBottom(scrolled, height) == scrolled >= height

\* a plausible slip: > for >= in the comparison with the target
ShouldStopAboveTarget(rows, tried) == rows > targetRowCount \/ tried >= maxAttempts

\* line 26: rows.length >= targetRowCount || attempts >= maxAttempts
ShouldStop(rows, tried) == rows >= targetRowCount \/ tried >= maxAttempts

\* lines 19-33: the callback of setInterval
Tick ==
    /\ timer = "running"
    /\ LET scrolled == totalHeight + distance            \* totalHeight += distance
           rows == rowCount                              \* querySelectorAll(...).length
           counted == ~ShouldStop(rows, attempts) /\ HitBottom(scrolled, scrollHeight)
       IN  /\ IF ShouldStop(rows, attempts)
              THEN /\ timer' = "cleared"                  \* clearInterval; resolve()
                   /\ attempts' = attempts
              ELSE IF HitBottom(scrolled, scrollHeight)
              THEN /\ attempts' = attempts + 1
                   /\ timer' = timer
              ELSE /\ attempts' = attempts
                   /\ timer' = timer
           /\ IF scrolled >= Horizon
              THEN /\ totalHeight' = scrolled - distance
                   /\ scrollHeight' = Max(scrollHeight - distance, 0)
              ELSE /\ totalHeight' = scrolled
                   /\ scrollHeight' = scrollHeight
           /\ ticks' = Min(ticks + 1, MaxTicks)
           /\ streak' = IF counted /\ ~fresh THEN streak + 1 ELSE streak
           /\ fresh' = FALSE
           /\ seen' = rows
    /\ UNCHANGED <<rowCount, steady, callVars>>

\* the page: between two ticks it loads rows, grows, shrinks or stays
PageChanges ==
    /\ timer = "running"
    /\ \E h \in HeightsNear(totalHeight), n \in RowCounts :
          /\ scrollHeight' = h
          /\ rowCount' = n
          /\ <<h, n>> # <<scrollHeight, rowCount>>
          /\ steady' = IF steady >= 0 /\ h <= steady /\ n < targetRowCount
                       THEN steady ELSE -1
          /\ fresh' = (fresh \/ h > scrollHeight \/ n > rowCount)
          /\ streak' = IF h > scrollHeight \/ n > rowCount THEN 0 ELSE streak
    /\ UNCHANGED <<timer, totalHeight, attempts, ticks, seen, callVars>>

InitScroll ==
    /\ InitCalls({})
    /\ timer = "running"
    /\ totalHeight = 0
    /\ attempts = 0
    /\ scrollHeight \in HeightsNear(0)
    /\ rowCount \in RowCounts
    /\ ticks = 0
    /\ steady = IF rowCount < targetRowCount THEN scrollHeight ELSE -1
    /\ fresh = FALSE
    /\ seen = -1
    /\ streak = 0

NextScroll == Tick \/ PageChanges

SpecScroll == InitScroll /\ [][NextScroll]_vars

\* setInterval fires its callback every 500 ms until the timer is cleared
FairScroll == SpecScroll /\ WF_vars(Tick)

----------------------------------------------------------------------------
(* Properties.                                                             *)

IsRankings(c) == pc[c] # "idle" /\ req[c].op = "getPlayerRankings"
Completed(c) == pc[c] \in {"returned", "failed"}
OwnSessions(c) == {i \in DOMAIN sessions : sessions[i].owner = c}
OwnOpenSessions(c) == {i \in OwnSessions(c) : sessions[i].open}

\* C1: a getPlayerRankings call whose service value is not exactly one of the
\* six identifiers fails, and when it has failed it has issued no HTTP request
\* and has launched no browser session.
C1_UnknownServiceFailsBeforeNetwork ==
    \A c \in CallIds :
        (IsRankings(c) /\ req[c].service \in OtherServices) =>
            /\ pc[c] = "failed"
            /\ err[c] # "none"
            /\ gets[c] = 0
            /\ OwnSessions(c) = {}

\* C1's case: one call failed on 'rivals' (wrong case) while another failed on
\* an array that == converts to 'On3Composite'
C1_Witness ==
    \E c, d \in CallIds :
        /\ req[c].service = Str("rivals") /\ pc[c] = "failed"
        /\ err[c] = "Error: Invalid rankings type"
        /\ req[d].service = Arr("On3Composite") /\ pc[d] = "failed"

\* C2: the auto-scroll loop always eventually terminates, whatever the page
\* does, also when its row count never reaches the target.
C2_ScrollTerminates == <>(timer = "cleared")

\* the errors of a call that fails at navigation, scrolling or content capture
CaptureErrors ==
    {"TimeoutError: Navigation timeout", "Error: Execution context was destroyed",
     "Error: Session closed"}

\* the errors of a call that fails before it navigates
SetupErrors == {"Error: Failed to launch the browser process", "Error: Target closed"}

\* C3: every getPlayerRankings call with service 'Rivals' launches exactly one
\* browser session of its own, and when the call has completed (with a result,
\* or by failing at navigation, scrolling or content capture) that session is
\* closed; once every call has completed in one of these ways no session is
\* open.
C3_RivalsSessionAlwaysClosed ==
    /\ \A c \in CallIds :
          (IsRankings(c) /\ StrictEq(req[c].service, "Rivals")) =>
              /\ Cardinality(OwnSessions(c)) <= 1
              /\ (pc[c] \in {"newPage", "goto", "autoScroll", "content", "close",
                             "returned"}
                    => Cardinality(OwnSessions(c)) = 1)
              /\ ((pc[c] = "returned" \/ (pc[c] = "failed" /\ err[c] \in CaptureErrors))
                    => OwnOpenSessions(c) = {})
    /\ ((\A c \in CallIds : Completed(c) /\ err[c] \notin SetupErrors) =>
            \A i \in DOMAIN sessions : ~sessions[i].open)

\* a call that fetches in plain-fetch mode: its request builder yields a
\* target and the content is fetched with axios.get
PlainFetch(c) ==
    pc[c] # "idle" /\ BuildTarget(req[c]).ok /\ StartMode(req[c]) = "plain"

\* C4: a plain-fetch call issues exactly one HTTP GET; when the GET fails the
\* call issues no further GET, fails with that same error and returns nothing.
C4_OneGetNoRetrySameError ==
    \A c \in CallIds :
        PlainFetch(c) =>
            /\ gets[c] = 1
            /\ (failure[c] # "none" =>
                    /\ pc[c] = "failed"
                    /\ err[c] = failure[c]
                    /\ result[c] = NoResult)

\* C4's case: a plain-fetch call whose GET was answered with status 404
C4_Witness ==
    \E c \in CallIds :
        /\ PlainFetch(c) /\ req[c].op = "getPlayByPlay"
        /\ failure[c] = "AxiosError: status code 404" /\ pc[c] = "failed"

\* the page number of a request (1 when the caller gives none)
PageOf(r) == IF r.page.t = "undefined" THEN 1 ELSE r.page.v

\* C5: for service '247' or '247Composite', page p and a fetched document of n
\* matched rows, getPlayerRankings returns n records, the i-th (from 0) with
\* ranking 1 + 50 * (p - 1) + i.
C5_Rank247Backfill ==
    \A c \in CallIds :
        (/\ IsRankings(c)
         /\ req[c].service \in {Str("247"), Str("247Composite")}
         /\ content[c].kind = "html") =>
            /\ pc[c] = "returned"
            /\ Len(result[c].list) = Len(content[c].rows)
            /\ \A i \in 1..Len(result[c].list) :
                  result[c].list[i].ranking = 1 + 50 * (PageOf(req[c]) - 1) + (i - 1)

\* the rows of a document that have a non-empty name and a non-empty rating,
\* in document order
RECURSIVE CompleteRows(_)
CompleteRows(rows) ==
    IF rows = <<>> THEN <<>>
    ELSE (IF Head(rows).name = "" \/ Head(rows).rating = "" THEN <<>> ELSE <<Head(rows)>>)
         \o CompleteRows(Tail(rows))

EmptyNamed(rows) == {i \in DOMAIN rows : rows[i].name = ""}

\* C6: getSchoolCommits returns exactly the rows with a non-empty name and a
\* non-empty rating, in document order; ten rows of which two have an empty
\* name (the other eight being players) give eight records.
C6_CommitsDropIncompleteRows ==
    \A c \in CallIds :
        (req[c].op = "getSchoolCommits" /\ content[c].kind = "html") =>
            /\ pc[c] = "returned"
            /\ result[c].list = CompleteRows(content[c].rows)
            /\ ((/\ Len(content[c].rows) = 10
                 /\ Cardinality(EmptyNamed(content[c].rows)) = 2
                 /\ \A i \in DOMAIN content[c].rows :
                       content[c].rows[i].name # "" => content[c].rows[i].rating # "")
                    => Len(result[c].list) = 8)

\* C6's case: a ten-row document with two empty-named rows gave eight records
C6_Witness ==
    \E c \in CallIds :
        /\ req[c].op = "getSchoolCommits" /\ pc[c] = "returned"
        /\ Len(content[c].rows) = 10
        /\ Cardinality(EmptyNamed(content[c].rows)) = 2
        /\ Len(result[c].list) = 8

\* YYYYMMDD for the numbers y, m, d
Expected8(y, m, d) ==
    <<y \div 1000, (y \div 100) % 10, (y \div 10) % 10, y % 10,
      m \div 10, m % 10, d \div 10, d % 10>>

IsDated(c) ==
    /\ pc[c] # "idle"
    /\ req[c].op \in {"getSchedule", "getScoreboard"}

AllSupplied(r) == r.year # Undefined /\ r.month # Undefined /\ r.day # Undefined

\* C7: in getSchedule and getScoreboard, a year in 1000..9999 (a number or its
\* four-digit string), a month in 1..12 and a day in 1..31 (numbers or numeric
\* strings, with or without a leading zero) give the dates parameter YYYYMMDD,
\* eight characters with month and day padded to two digits; the value depends
\* on the date alone, so both operations give the same string.
C7_DatesIsEightDigits ==
    \A c \in CallIds :
        (IsDated(c) /\ AllSupplied(req[c])) =>
            /\ "dates" \in DOMAIN query[c].params
            /\ query[c].params.dates =
                  Str(Expected8(req[c].means[1], req[c].means[2], req[c].means[3]))
            /\ Len(query[c].params.dates.v) = 8

\* C7's case: getScoreboard was sent for 2019, month '01', day 5
C7_Witness ==
    \E c \in CallIds :
        /\ req[c].op = "getScoreboard" /\ pc[c] = "get"
        /\ req[c].year = Num(2019) /\ req[c].month = Str(<<0, 1>>) /\ req[c].day = Num(5)
        /\ query[c].params.dates = Str(<<2, 0, 1, 9, 0, 1, 0, 5>>)

\* the value a parameter is sent with: the caller's, or the default
SentAs(x, d) == IF x = Undefined THEN Num(d) ELSE x

\* C8: the params of getSchedule and getScoreboard hold dates if and only if
\* the caller supplied year, month and day; with one of them missing there is
\* no dates and groups, seasontype (and limit, for the scoreboard) are as
\* without a date.
C8_DatesOnlyWhenAllSupplied ==
    \A c \in CallIds :
        IsDated(c) =>
            /\ ("dates" \in DOMAIN query[c].params) <=> AllSupplied(req[c])
            /\ query[c].params.groups = SentAs(req[c].groups, 80)
            /\ query[c].params.seasontype = SentAs(req[c].seasontype, 2)
            /\ (req[c].op = "getScoreboard" =>
                    /\ query[c].params.limit = SentAs(req[c].limit, 300)
                    /\ DOMAIN query[c].params \ {"dates"} = {"groups", "seasontype", "limit"})
            /\ (req[c].op = "getSchedule" =>
                    DOMAIN query[c].params \ {"dates"} =
                        {"groups", "seasontype", "xhr", "render", "device", "userab"})

\* C8's case: getSchedule was sent with year and month but no day
C8_Witness ==
    \E c \in CallIds :
        /\ req[c].op = "getSchedule" /\ pc[c] = "get"
        /\ req[c].year # Undefined /\ req[c].month # Undefined /\ req[c].day = Undefined
        /\ "dates" \notin DOMAIN query[c].params
        /\ query[c].params.groups = Num(81)

\* C9: for service 'ESPN', page p and a fetched feed of n >= 1 items,
\* getPlayerRankings returns n records in feed order, the i-th (from 0) ranked
\* by the item's displayed rank when it has one and else 1 + 25 * (p - 1) + i,
\* with stars 0.
C9_EspnRanking ==
    \A c \in CallIds :
        (/\ IsRankings(c)
         /\ StrictEq(req[c].service, "ESPN")
         /\ content[c].kind = "feed"
         /\ Len(content[c].rows) >= 1) =>
            /\ pc[c] = "returned"
            /\ Len(result[c].list) = Len(content[c].rows)
            /\ \A i \in 1..Len(result[c].list) :
                  /\ result[c].list[i].stars = 0
                  /\ result[c].list[i].ranking =
                        IF content[c].rows[i].rank # Undefined
                        THEN content[c].rows[i].rank.v
                        ELSE 1 + 25 * (PageOf(req[c]) - 1) + (i - 1)

\* the name and the rating of a returned record
NameOf(c, rec) == IF req[c].op = "getSchoolRankings" THEN rec.school ELSE rec.name
RatingOf(c, rec) == IF req[c].op = "getSchoolRankings" THEN rec.averageRating ELSE rec.rating

\* C10: the list returned by getSchoolRankings, and by getPlayerRankings for
\* the HTML services, holds no record with an empty name or an empty rating.
C10_NoEmptyRecordReturned ==
    \A c \in CallIds :
        (/\ pc[c] = "returned"
         /\ \/ req[c].op = "getSchoolRankings"
            \/ (req[c].op = "getPlayerRankings" /\ ~StrictEq(req[c].service, "ESPN"))) =>
            \A i \in 1..Len(result[c].list) :
                /\ NameOf(c, result[c].list[i]) # ""
                /\ RatingOf(c, result[c].list[i]) # ""

\* the tick on which the loop ends in a page of initial scroll height h that
\* never grows: the ticks it takes the scrolled distance to reach h (one at
\* least), then maxAttempts more
ExhaustionTick(h) == Max(1, (h + distance - 1) \div distance) + maxAttempts

\* C11 as stated: while the rows stay below the target and the page never
\* grows past its initial content, the loop has ended once maxAttempts = 20
\* ticks have passed, whatever the initial scroll height.
C11_EndsWithinMaxAttemptsTicks ==
    (steady >= 0 /\ ticks >= maxAttempts) => timer = "cleared"

\* C11 as amended: under the same condition the loop has ended once
\* max(1, ceil(h / distance)) + maxAttempts ticks have passed, h being the
\* page's initial scroll height.
C11_EndsWithinExhaustionTicks ==
    (steady >= 0 /\ ticks >= ExhaustionTick(steady)) => timer = "cleared"

\* C11's case: a page two increments high that never changed ended on tick 22
C11_Witness ==
    /\ steady = 2 * distance /\ scrollHeight = steady /\ rowCount = 0
    /\ timer = "cleared" /\ ticks = ExhaustionTick(steady)
    /\ attempts = maxAttempts

\* C12: a tick that reads at least targetRowCount rows clears the timer (so the
\* first such tick ends the loop), and once the timer is cleared the scrolled
\* distance, the attempts and the timer never change again.
C12_TargetReachedEndsLoop ==
    /\ [](seen >= targetRowCount => timer = "cleared")
    /\ [][timer = "cleared" =>
            /\ timer' = "cleared"
            /\ totalHeight' = totalHeight
            /\ attempts' = attempts]_vars

\* C12's case: the rows reached the target after some ticks, before the
\* attempts ran out, and the tick that read them ended the loop
C12_Witness ==
    /\ timer = "cleared" /\ seen >= targetRowCount
    /\ ticks > 1 /\ attempts > 0 /\ attempts < maxAttempts

\* C14: an attempt is counted on a tick only when the scrolled distance has
\* caught up with the current scroll height and the tick found no more rows
\* than the tick before it; and the loop ends with the rows below the target
\* only after maxAttempts attempts counted in a row, the page not having grown
\* (more rows or a greater scroll height) in between.
C14_AttemptsAreConsecutiveNoGrowth ==
    [][/\ attempts' = attempts + 1 =>
            /\ totalHeight + distance >= scrollHeight
            /\ ~(seen >= 0 /\ rowCount > seen)
       /\ (timer = "running" /\ timer' = "cleared" /\ rowCount < targetRowCount) =>
            streak >= maxAttempts]_vars

\* C13: the object getPicks returns carries, under pickcenter, the pickcenter
\* section of the summary it fetched, and under winProbability,
\* againstTheSpread and odds the sections of those names.
C13_PicksCarryPickcenter ==
    \A c \in CallIds :
        (pc[c] = "returned" /\ req[c].op = "getPicks") =>
            LET data == content[c].rows[1]
                picks == result[c].list[1]
            IN  /\ picks.pickcenter = data.pickcenter
                /\ picks.winProbability = data.winprobability
                /\ picks.againstTheSpread = data.againstTheSpread
                /\ picks.odds = data.odds

====
